---- MODULE Spec2Model ----
(***************************************************************************)
(* Automobile sales classification dashboard: the startup load             *)
(* (app/app.py), the initial layout (app/components.py) and the single     *)
(* callback update_dashboard (app/callbacks.py) that filters the loaded    *)
(* table, aggregates it and publishes three KPI texts and four figures.    *)
(*                                                                         *)
(* Numbers: SalesVolume and Price_k are held as naturals, a float mean is  *)
(* held exactly as a fraction [num, den] (den = 0 is NaN, the mean of an   *)
(* empty column), and a float rounded to one decimal is held as its number *)
(* of tenths.  Texts are strings built character by character the way the  *)
(* format specs of the code build them.                                    *)
(***************************************************************************)
EXTENDS Integers, Sequences, FiniteSets, TLC

VARIABLES
    pc,                      \* "start", "loaded", "serving", "crashed"
    data_file,               \* state of data/processed/cleaned_data.csv on disk
    model_file,              \* state of data/model/classification_model.pkl on disk
    df,                      \* the module-level DataFrame of app.py, a sequence of rows
    selected_manufacturers,  \* value of the manufacturer-filter dropdown
    selected_regions,        \* value of the region-filter dropdown
    selected_category,       \* value of the sales-category-radio
    pending,                 \* callback requests in flight, oldest first
    local,                   \* local variables of the last finished update_dashboard call
    outputs                  \* the seven published outputs

vars == <<pc, data_file, model_file, df, selected_manufacturers,
          selected_regions, selected_category, pending, local, outputs>>

-----------------------------------------------------------------------------
(* Bounds of the model *)

MaxRows == 4
MaxPending == 2

(* Rows the dataset file may hold.  Rows 1-4 are the four-row scenario     *)
(* dataset; row 5 shares (Toyota, North) with row 1 in another period and  *)
(* carries a volume above 1000; row 6 repeats row 1.                       *)
RowPool ==
    << [Manufacturer |-> "Toyota", Region |-> "North", SalesVolume |-> 100,
        Price_k |-> 20, Is_Success |-> 1, TimePeriod |-> "2020-Q1", Sales_Category |-> "High"],
       [Manufacturer |-> "Toyota", Region |-> "South", SalesVolume |-> 50,
        Price_k |-> 15, Is_Success |-> 0, TimePeriod |-> "2020-Q1", Sales_Category |-> "Low"],
       [Manufacturer |-> "Honda", Region |-> "North", SalesVolume |-> 80,
        Price_k |-> 18, Is_Success |-> 1, TimePeriod |-> "2020-Q2", Sales_Category |-> "Medium"],
       [Manufacturer |-> "Honda", Region |-> "South", SalesVolume |-> 20,
        Price_k |-> 10, Is_Success |-> 0, TimePeriod |-> "2020-Q2", Sales_Category |-> "Low"],
       [Manufacturer |-> "Toyota", Region |-> "North", SalesVolume |-> 1200,
        Price_k |-> 16, Is_Success |-> 0, TimePeriod |-> "2020-Q2", Sales_Category |-> "High"],
       [Manufacturer |-> "Toyota", Region |-> "North", SalesVolume |-> 100,
        Price_k |-> 20, Is_Success |-> 1, TimePeriod |-> "2020-Q1", Sales_Category |-> "High"] >>

(* A row an upstream producer emits outside the data model: Is_Success = 2. *)
UpstreamPool ==
    RowPool \o
    << [Manufacturer |-> "Honda", Region |-> "South", SalesVolume |-> 30,
        Price_k |-> 12, Is_Success |-> 2, TimePeriod |-> "2020-Q1", Sales_Category |-> "Low"] >>

RECURSIVE Pick(_, _, _)
(* The rows of pool whose indices are in S, in the order of the pool. *)
Pick(pool, S, i) ==
    IF i > Len(pool) THEN << >>
    ELSE IF i \in S THEN << pool[i] >> \o Pick(pool, S, i + 1)
    ELSE Pick(pool, S, i + 1)

DatasetsOf(pool) ==
    { Pick(pool, S, 1) : S \in { T \in SUBSET (1..Len(pool)) : Cardinality(T) <= MaxRows } }

Datasets == DatasetsOf(RowPool)
UpstreamDatasets == DatasetsOf(UpstreamPool)

FileStates == {"ok", "missing", "unreadable", "malformed"}

(* Key orders: groupby sorts its keys, and strings are ordered here by     *)
(* listing them in ascending order.                                        *)
PeriodOrder == << "2020-Q1", "2020-Q2" >>
CategoryOrder == << "High", "Low", "Medium" >>
RegionOrder == << "North", "South" >>
ManufacturerOrder == << "Honda", "Toyota" >>

-----------------------------------------------------------------------------
(* Columns, sums and means *)

RECURSIVE SumSeq(_)
SumSeq(s) == IF s = << >> THEN 0 ELSE Head(s) + SumSeq(Tail(s))

Column(d, c) == [i \in 1..Len(d) |-> d[i][c]]

NaN == [num |-> 0, den |-> 0]

RECURSIVE GCD(_, _)
GCD(a, b) == IF b = 0 THEN a ELSE GCD(b, a % b)

Frac(n, d) == IF d = 0 THEN NaN
              ELSE LET g == GCD(n, d) IN [num |-> n \div g, den |-> d \div g]

Sum(col) == SumSeq(col)

Mean(col) == Frac(SumSeq(col), Len(col))

Times100(x) == Frac(100 * x.num, x.den)

(* The integer nearest to n/d, ties to the even one. *)
RoundHalfEven(n, d) ==
    LET q == n \div d
        r == n % d
    IN  IF 2 * r > d THEN q + 1
        ELSE IF 2 * r < d THEN q
        ELSE IF q % 2 = 0 THEN q ELSE q + 1

(* numpy's round(1): the float as a number of tenths, NaN stays NaN. *)
Round1(x) == IF x.den = 0 THEN NaN
             ELSE Frac(RoundHalfEven(10 * x.num, x.den), 10)

-----------------------------------------------------------------------------
(* Formatting *)

Digit(d) == CASE d = 0 -> "0" [] d = 1 -> "1" [] d = 2 -> "2" [] d = 3 -> "3"
              [] d = 4 -> "4" [] d = 5 -> "5" [] d = 6 -> "6" [] d = 7 -> "7"
              [] d = 8 -> "8" [] d = 9 -> "9"

RECURSIVE IntStr(_)
IntStr(n) == IF n < 10 THEN Digit(n) ELSE IntStr(n \div 10) \o Digit(n % 10)

RECURSIVE Grouped(_)
(* digits of n with a comma between groups of three *)
Grouped(n) ==
    IF n < 1000 THEN IntStr(n)
    ELSE Grouped(n \div 1000) \o "," \o Digit((n % 1000) \div 100)
         \o Digit((n % 100) \div 10) \o Digit(n % 10)

(* f"{x:,.0f}" *)
FormatComma0f(x) == Grouped(x)

(* str() of a float that holds a whole number of tenths *)
StrFloat(x) ==
    IF x.den = 0 THEN "nan"
    ELSE LET t == (10 * x.num) \div x.den
         IN  IntStr(t \div 10) \o "." \o Digit(t % 10)

(* f"{x:.1f}" *)
Format1f(x) ==
    IF x.den = 0 THEN "nan"
    ELSE LET t == RoundHalfEven(10 * x.num, x.den)
         IN  IntStr(t \div 10) \o "." \o Digit(t % 10)

-----------------------------------------------------------------------------
(* 1. Filter Data *)

(* Faulty variant: the two masks joined with | instead of & *)
FilterManufacturerRegion_Or(d, M, R) ==
    SelectSeq(d, LAMBDA row : row.Manufacturer \in M \/ row.Region \in R)

(* df[Manufacturer.isin(...) & Region.isin(...)] : a boolean mask keeps    *)
(* each row at most once and in the order of the table.                    *)
FilterManufacturerRegion(d, M, R) ==
    SelectSeq(d, LAMBDA row : row.Manufacturer \in M /\ row.Region \in R)

(* if selected_category and selected_category != 'All' *)
FilterCategory(d, C) ==
    IF C # "" /\ C # "All"
    THEN SelectSeq(d, LAMBDA row : row.Sales_Category = C)
    ELSE d

Filter(d, M, R, C) == FilterCategory(FilterManufacturerRegion(d, M, R), C)

-----------------------------------------------------------------------------
(* 2.-6. Aggregate tables *)

(* The keys of column c present in d, in sorted order. *)
GroupKeys(d, c, order) ==
    SelectSeq(order, LAMBDA k : \E i \in 1..Len(d) : d[i][c] = k)

Group(d, c, k) == SelectSeq(d, LAMBDA row : row[c] = k)

(* Faulty variant: .first() instead of .sum() *)
trend_data_First(d) ==
    LET keys == GroupKeys(d, "TimePeriod", PeriodOrder)
    IN  [TimePeriod |-> keys,
         SalesVolume |-> [i \in 1..Len(keys) |->
                            Head(Column(Group(d, "TimePeriod", keys[i]), "SalesVolume"))]]

(* groupby('TimePeriod')['SalesVolume'].sum().reset_index() *)
trend_data(d) ==
    LET keys == GroupKeys(d, "TimePeriod", PeriodOrder)
    IN  [TimePeriod |-> keys,
         SalesVolume |-> [i \in 1..Len(keys) |->
                            Sum(Column(Group(d, "TimePeriod", keys[i]), "SalesVolume"))]]

(* groupby('Sales_Category')['Price_k'].mean().reset_index() *)
category_data(d) ==
    LET keys == GroupKeys(d, "Sales_Category", CategoryOrder)
    IN  [Sales_Category |-> keys,
         Price_k |-> [i \in 1..Len(keys) |->
                        Mean(Column(Group(d, "Sales_Category", keys[i]), "Price_k"))]]

(* (Region, Manufacturer) pairs in sorted order, Region first *)
PairOrder ==
    [i \in 1..(Len(RegionOrder) * Len(ManufacturerOrder)) |->
        << RegionOrder[((i - 1) \div Len(ManufacturerOrder)) + 1],
           ManufacturerOrder[((i - 1) % Len(ManufacturerOrder)) + 1] >>]

PairGroup(d, p) ==
    SelectSeq(d, LAMBDA row : row.Region = p[1] /\ row.Manufacturer = p[2])

(* Faulty variant: a pivot filled with zeros, one cell for every pair *)
heatmap_data_ZeroFilled(d) ==
    [Region |-> [i \in 1..Len(PairOrder) |-> PairOrder[i][1]],
     Manufacturer |-> [i \in 1..Len(PairOrder) |-> PairOrder[i][2]],
     SalesVolume |-> [i \in 1..Len(PairOrder) |->
                        Sum(Column(PairGroup(d, PairOrder[i]), "SalesVolume"))]]

(* groupby(['Region', 'Manufacturer'])['SalesVolume'].sum().reset_index() *)
heatmap_data(d) ==
    LET keys == SelectSeq(PairOrder, LAMBDA p : PairGroup(d, p) # << >>)
    IN  [Region |-> [i \in 1..Len(keys) |-> keys[i][1]],
         Manufacturer |-> [i \in 1..Len(keys) |-> keys[i][2]],
         SalesVolume |-> [i \in 1..Len(keys) |->
                            Sum(Column(PairGroup(d, keys[i]), "SalesVolume"))]]

(* Faulty variant: every value but 1 labelled unsuccessful *)
MapClassification_Else(v) ==
    IF v = 1 THEN "Successful Sales" ELSE "Unsuccessful Sales"

(* .map({1: 'Successful Sales', 0: 'Unsuccessful Sales'}): a value that is *)
(* no key of the dict maps to NaN                                          *)
MapClassification(v) ==
    CASE v = 1 -> "Successful Sales"
      [] v = 0 -> "Unsuccessful Sales"
      [] OTHER -> "NaN"

RECURSIVE FirstAppearance(_, _)
(* the distinct labels of s that are not NaN, in order of first appearance *)
FirstAppearance(s, seen) ==
    IF s = << >> THEN << >>
    ELSE IF Head(s) = "NaN" \/ Head(s) \in seen THEN FirstAppearance(Tail(s), seen)
    ELSE << Head(s) >> \o FirstAppearance(Tail(s), seen \cup {Head(s)})

CountOf(s, l) == Len(SelectSeq(s, LAMBDA x : x = l))

(* value_counts(): NaN dropped, one row per label, largest count first,    *)
(* equal counts in order of first appearance.  The map leaves at most two  *)
(* labels.                                                                 *)
ValueCounts(s) ==
    LET ls == FirstAppearance(s, {})
        sorted == IF Len(ls) = 2 /\ CountOf(s, ls[2]) > CountOf(s, ls[1])
                  THEN << ls[2], ls[1] >> ELSE ls
    IN  [Classification |-> sorted,
         Count |-> [i \in 1..Len(sorted) |-> CountOf(s, sorted[i])]]

success_counts(d) ==
    ValueCounts([i \in 1..Len(d) |-> MapClassification(d[i].Is_Success)])

-----------------------------------------------------------------------------
(* Figures *)

color_discrete_sequence == << "#4CAF50", "#F44336" >>

CallbackMargin == << "t=50", "b=50" >>
LayoutMargin == << >>

LineFigure(t, margin) ==
    [kind |-> "line", title |-> "Sales Volume Trend Over Time",
     x |-> t.TimePeriod, y |-> t.SalesVolume, margin |-> margin]

BarFigure(c, margin) ==
    [kind |-> "bar", title |-> "Average Price by Sales Category (k)",
     x |-> c.Sales_Category, y |-> c.Price_k, color |-> c.Sales_Category,
     margin |-> margin]

HeatmapFigure(h, margin) ==
    [kind |-> "heatmap", title |-> "Sales Volume Heatmap by Region and Manufacturer",
     x |-> h.Region, y |-> h.Manufacturer, z |-> h.SalesVolume,
     colorscale |-> "Viridis", margin |-> margin]

PieFigure(s, margin) ==
    [kind |-> "pie", title |-> "Sales Classification Distribution (Target Variable)",
     names |-> s.Classification, values |-> s.Count,
     colors |-> color_discrete_sequence, margin |-> margin]

(* No color column is given to px.pie, so the slices take the colours of   *)
(* the sequence by position: the i-th slice gets the i-th colour.          *)
SliceColor(fig, i) == fig.colors[((i - 1) % Len(fig.colors)) + 1]

empty_fig == [kind |-> "empty", title |-> "No data to display based on filters."]

-----------------------------------------------------------------------------
(* callbacks.py: update_dashboard *)

Bundle(k1, k2, k3, f1, f2, f3, f4) ==
    [kpi_total_sales |-> k1, kpi_avg_price |-> k2, kpi_success_rate |-> k3,
     sales_trend_graph |-> f1, category_performance_graph |-> f2,
     regional_heatmap |-> f3, success_classification_graph |-> f4]

(* Faulty variant: the mean cut to one decimal instead of rounded *)
avg_price_Truncated(d) ==
    LET m == Mean(Column(d, "Price_k"))
    IN  IF m.den = 0 THEN NaN ELSE Frac((10 * m.num) \div m.den, 10)

(* Faulty variant: .sum() instead of .mean() *)
success_rate_OfSum(d) == Frac(100 * Sum(Column(d, "Is_Success")), 1)

total_sales(d) == Sum(Column(d, "SalesVolume"))
avg_price(d) == Round1(Mean(Column(d, "Price_k")))
success_rate(d) == Times100(Mean(Column(d, "Is_Success")))

kpi_sales(d) == FormatComma0f(total_sales(d))
kpi_price(d) == "$" \o StrFloat(avg_price(d)) \o "k"
kpi_success(d) == Format1f(success_rate(d)) \o "%"

Aggregated(filtered_df) ==
    Bundle(kpi_sales(filtered_df), kpi_price(filtered_df), kpi_success(filtered_df),
           LineFigure(trend_data(filtered_df), CallbackMargin),
           BarFigure(category_data(filtered_df), CallbackMargin),
           HeatmapFigure(heatmap_data(filtered_df), CallbackMargin),
           PieFigure(success_counts(filtered_df), CallbackMargin))

Placeholder == Bundle("0", "$0k", "0.0%", empty_fig, empty_fig, empty_fig, empty_fig)

(* Faulty variant: no early return for a filtered table without rows *)
update_dashboard_NoEmptyCheck(d, M, R, C) == Aggregated(Filter(d, M, R, C))

update_dashboard(d, M, R, C) ==
    LET filtered_df == Filter(d, M, R, C)
    IN  IF filtered_df = << >> THEN Placeholder ELSE Aggregated(filtered_df)

(* The locals of a finished call: the KPI numbers are never assigned on    *)
(* the early return.                                                       *)
Locals(d, M, R, C) ==
    LET filtered_df == Filter(d, M, R, C)
    IN  IF filtered_df = << >>
        THEN [filtered_df |-> filtered_df, total_sales |-> "unset",
              avg_price |-> "unset", success_rate |-> "unset"]
        ELSE [filtered_df |-> filtered_df, total_sales |-> total_sales(filtered_df),
              avg_price |-> avg_price(filtered_df),
              success_rate |-> success_rate(filtered_df)]

NoLocals == [filtered_df |-> << >>, total_sales |-> "unset",
             avg_price |-> "unset", success_rate |-> "unset"]

(* Faulty variant: the figures missing from the Output list *)
Published_KpisOnly(prev, result) ==
    [prev EXCEPT !.kpi_total_sales = result.kpi_total_sales,
                 !.kpi_avg_price = result.kpi_avg_price,
                 !.kpi_success_rate = result.kpi_success_rate]

(* The one callback lists all seven Outputs: what it returns replaces all  *)
(* seven published values.                                                 *)
Published(prev, result) == result

-----------------------------------------------------------------------------
(* components.py: the initial layout *)

Unique(d, c) == { d[i][c] : i \in 1..Len(d) }

ManufacturerOptions(d) == Unique(d, "Manufacturer")
RegionOptions(d) == Unique(d, "Region")
CategoryOptions == {"High", "Medium", "Low", "All"}

create_kpi_cards(d) ==
    << FormatComma0f(Sum(Column(d, "SalesVolume"))),
       "$" \o StrFloat(Round1(Mean(Column(d, "Price_k")))) \o "k",
       Format1f(Times100(Mean(Column(d, "Is_Success")))) \o "%" >>

create_sales_trend_chart(d) == LineFigure(trend_data(d), LayoutMargin)
create_category_performance_chart(d) == BarFigure(category_data(d), LayoutMargin)
create_regional_heatmap(d) == HeatmapFigure(heatmap_data(d), LayoutMargin)
create_success_classification_chart(d) == PieFigure(success_counts(d), LayoutMargin)

Layout(d) ==
    LET k == create_kpi_cards(d)
    IN  Bundle(k[1], k[2], k[3],
               create_sales_trend_chart(d), create_category_performance_chart(d),
               create_regional_heatmap(d), create_success_classification_chart(d))

NoOutputs == Bundle("", "", "", << >>, << >>, << >>, << >>)

-----------------------------------------------------------------------------
(* app.py: startup *)

EmptyFrame == << >>

Init ==
    /\ pc = "start"
    /\ data_file \in FileStates
    /\ model_file \in FileStates
    /\ df = EmptyFrame
    /\ selected_manufacturers = {}
    /\ selected_regions = {}
    /\ selected_category = "All"
    /\ pending = << >>
    /\ local = NoLocals
    /\ outputs = NoOutputs

(* try: read_csv, open + pickle.load succeed *)
LoadOk(files) ==
    /\ pc = "start"
    /\ data_file = "ok" /\ model_file = "ok"
    /\ \E content \in files : df' = content
    /\ pc' = "loaded"
    /\ UNCHANGED <<data_file, model_file, selected_manufacturers, selected_regions,
                   selected_category, pending, local, outputs>>

(* except FileNotFoundError: the first missing file raises it; the csv is  *)
(* read before the pickle is opened                                        *)
LoadMissing ==
    /\ pc = "start"
    /\ \/ data_file = "missing"
       \/ data_file = "ok" /\ model_file = "missing"
    /\ df' = EmptyFrame
    /\ pc' = "loaded"
    /\ UNCHANGED <<data_file, model_file, selected_manufacturers, selected_regions,
                   selected_category, pending, local, outputs>>

(* any other exception (PermissionError, ParserError, UnpicklingError) is  *)
(* not caught: the import of app.py fails                                  *)
LoadCrash ==
    /\ pc = "start"
    /\ \/ data_file \in {"unreadable", "malformed"}
       \/ data_file = "ok" /\ model_file \in {"unreadable", "malformed"}
    /\ pc' = "crashed"
    /\ UNCHANGED <<data_file, model_file, df, selected_manufacturers, selected_regions,
                   selected_category, pending, local, outputs>>

Request(M, R, C) == [manufacturers |-> M, regions |-> R, category |-> C]

(* Layout assembly and register_callbacks; the page then fires the         *)
(* callback once with the default values of the three controls.            *)
BuildLayout ==
    /\ pc = "loaded"
    /\ outputs' = Layout(df)
    /\ selected_manufacturers' = ManufacturerOptions(df)
    /\ selected_regions' = RegionOptions(df)
    /\ selected_category' = "All"
    /\ pending' = << Request(ManufacturerOptions(df), RegionOptions(df), "All") >>
    /\ pc' = "serving"
    /\ UNCHANGED <<data_file, model_file, df, local>>

(* df['Price_k'].mean() of a table without rows is NaN; where the library  *)
(* hands it back as a plain float, .round(1) raises AttributeError and the *)
(* layout is never built.                                                  *)
BuildLayoutCrash ==
    /\ pc = "loaded"
    /\ df = EmptyFrame
    /\ pc' = "crashed"
    /\ UNCHANGED <<data_file, model_file, df, selected_manufacturers, selected_regions,
                   selected_category, pending, local, outputs>>

-----------------------------------------------------------------------------
(* Interaction: a control changes, the callback runs *)

ChangeManufacturer ==
    /\ pc = "serving"
    /\ Len(pending) < MaxPending
    /\ \E M \in SUBSET ManufacturerOptions(df) :
          /\ M # selected_manufacturers
          /\ selected_manufacturers' = M
          /\ pending' = Append(pending, Request(M, selected_regions, selected_category))
    /\ UNCHANGED <<pc, data_file, model_file, df, selected_regions, selected_category, local, outputs>>

ChangeRegion ==
    /\ pc = "serving"
    /\ Len(pending) < MaxPending
    /\ \E R \in SUBSET RegionOptions(df) :
          /\ R # selected_regions
          /\ selected_regions' = R
          /\ pending' = Append(pending, Request(selected_manufacturers, R, selected_category))
    /\ UNCHANGED <<pc, data_file, model_file, df, selected_manufacturers, selected_category, local, outputs>>

ChangeCategory ==
    /\ pc = "serving"
    /\ Len(pending) < MaxPending
    /\ \E C \in CategoryOptions :
          /\ C # selected_category
          /\ selected_category' = C
          /\ pending' = Append(pending, Request(selected_manufacturers, selected_regions, C))
    /\ UNCHANGED <<pc, data_file, model_file, df, selected_manufacturers, selected_regions, local, outputs>>

RunCallback ==
    /\ pc = "serving"
    /\ pending # << >>
    /\ LET req == Head(pending)
       IN  /\ local' = Locals(df, req.manufacturers, req.regions, req.category)
           /\ outputs' = Published(outputs,
                            update_dashboard(df, req.manufacturers, req.regions, req.category))
    /\ pending' = Tail(pending)
    /\ UNCHANGED <<pc, data_file, model_file, df, selected_manufacturers,
                   selected_regions, selected_category>>

Interact == ChangeManufacturer \/ ChangeRegion \/ ChangeCategory \/ RunCallback

Next == LoadOk(Datasets) \/ LoadMissing \/ LoadCrash \/ BuildLayout \/ BuildLayoutCrash
        \/ Interact

Spec == Init /\ [][Next]_vars

(* The same program fed by an upstream producer that is not held to the    *)
(* data model.                                                             *)
NextUpstream == LoadOk(UpstreamDatasets) \/ LoadMissing \/ LoadCrash \/ BuildLayout
                \/ BuildLayoutCrash \/ Interact

SpecUpstream == Init /\ [][NextUpstream]_vars

Idle == pc = "serving" /\ pending = << >>

-----------------------------------------------------------------------------
(* Reference definitions for the properties: the rows the current          *)
(* selection asks for, as a set of row numbers of df.                      *)

Qualifies(row, M, R, C) ==
    /\ row.Manufacturer \in M
    /\ row.Region \in R
    /\ (C = "All" \/ row.Sales_Category = C)

Wanted == { i \in 1..Len(df) :
              Qualifies(df[i], selected_manufacturers, selected_regions, selected_category) }

(* the k-th smallest member of a set of row numbers *)
Nth(S, k) == CHOOSE i \in S : Cardinality({ j \in S : j < i }) = k - 1

RECURSIVE Total(_, _)
(* the sum of column c of df over the row numbers in S *)
Total(S, c) ==
    IF S = {} THEN 0
    ELSE LET i == CHOOSE j \in S : TRUE IN df[i][c] + Total(S \ {i}, c)

Abs(x) == IF x < 0 THEN -x ELSE x

(* one decimal place: t tenths written out *)
Tenths(t) == IntStr(t \div 10) \o "." \o Digit(t % 10)

(* t is an integer nearest to n/d *)
Nearest(t, n, d) == 2 * Abs(n - t * d) <= d

ScenarioDataset == SubSeq(RowPool, 1, 4)

AllSelected ==
    /\ selected_manufacturers = ManufacturerOptions(df)
    /\ selected_regions = RegionOptions(df)

PositionIn(order, k) == CHOOSE i \in 1..Len(order) : order[i] = k

-----------------------------------------------------------------------------
(* C1: in Idle, the filtered subset the callback computed holds exactly    *)
(* the rows of df with Manufacturer in M, Region in R and (C = "All" or    *)
(* Sales_Category = C), each once and none other; it has no rows when M or *)
(* R is empty.                                                             *)
C1_FilterExact ==
    Idle =>
      /\ Len(local.filtered_df) = Cardinality(Wanted)
      /\ \A k \in 1..Len(local.filtered_df) : local.filtered_df[k] = df[Nth(Wanted, k)]
      /\ (selected_manufacturers = {} \/ selected_regions = {}) => local.filtered_df = << >>

C1_Witness ==
    /\ Idle
    /\ Len(df) = 4
    /\ Cardinality(Wanted) = 2
    /\ selected_category # "All"
    /\ Len(local.filtered_df) = 2

(* C2: in Idle, all seven published outputs are the pipeline's result for  *)
(* the loaded dataset and the selection now shown by the three controls.   *)
C2_OutputsFollowSelection ==
    Idle => outputs = update_dashboard(df, selected_manufacturers, selected_regions,
                                       selected_category)

C2_Witness ==
    /\ Idle
    /\ df = ScenarioDataset
    /\ selected_manufacturers = {"Toyota"}
    /\ selected_regions = {"North", "South"}
    /\ selected_category = "Low"
    /\ outputs.kpi_total_sales = "50"
    /\ outputs.sales_trend_graph.y = << 50 >>

(* C3: in Idle, when no row of df qualifies, the KPI texts are "0", "$0k"  *)
(* and "0.0%", the four figures are one and the same "no data" figure, and *)
(* no KPI number was computed.                                             *)
C3_EmptySelectionPlaceholder ==
    (Idle /\ Wanted = {}) =>
      /\ outputs.kpi_total_sales = "0"
      /\ outputs.kpi_avg_price = "$0k"
      /\ outputs.kpi_success_rate = "0.0%"
      /\ outputs.sales_trend_graph = [kind |-> "empty",
                                      title |-> "No data to display based on filters."]
      /\ outputs.category_performance_graph = outputs.sales_trend_graph
      /\ outputs.regional_heatmap = outputs.sales_trend_graph
      /\ outputs.success_classification_graph = outputs.sales_trend_graph
      /\ local.total_sales = "unset"
      /\ local.avg_price = "unset"
      /\ local.success_rate = "unset"

C3_Witness ==
    /\ Idle
    /\ Len(df) = 3
    /\ selected_manufacturers # {}
    /\ selected_regions # {}
    /\ Wanted = {}
    /\ outputs.kpi_avg_price = "$0k"

(* C4: when the dataset file or the model artifact is missing, unreadable  *)
(* or malformed, the process never crashes, the dataset is the empty one,  *)
(* and whatever is published shows "0", "$0k" and "0.0%".                  *)
C4_LoadFailureDegradesGracefully ==
    (data_file # "ok" \/ model_file # "ok") =>
      /\ pc # "crashed"
      /\ df = << >>
      /\ pc = "serving" =>
           /\ outputs.kpi_total_sales = "0"
           /\ outputs.kpi_avg_price = "$0k"
           /\ outputs.kpi_success_rate = "0.0%"

(* C5: in Idle with a non-empty filtered subset, the pie slice labelled    *)
(* "Successful Sales" is green and the one labelled "Unsuccessful Sales"   *)
(* is red.                                                                 *)
C5_SuccessGreenFailureRed ==
    (Idle /\ Wanted # {}) =>
      LET fig == outputs.success_classification_graph
      IN  \A i \in 1..Len(fig.names) :
            /\ fig.names[i] = "Successful Sales" => SliceColor(fig, i) = "#4CAF50"
            /\ fig.names[i] = "Unsuccessful Sales" => SliceColor(fig, i) = "#F44336"

(* C6: in Idle with a non-empty filtered subset, total sales is the sum of *)
(* SalesVolume with thousands separators, average price is "$", the mean   *)
(* of Price_k to the nearest tenth and "k", success rate is the mean of    *)
(* Is_Success times 100 to the nearest tenth and "%"; the scenario dataset *)
(* gives 250, $15.8k, 50.0% and, for "Low", 70 and 0.0%.                   *)
C6_KpiTexts ==
    (Idle /\ Wanted # {}) =>
      LET n == Cardinality(Wanted)
          volume == Total(Wanted, "SalesVolume")
          price == Total(Wanted, "Price_k")
          wins == Total(Wanted, "Is_Success")
      IN  /\ outputs.kpi_total_sales = Grouped(volume)
          /\ local.total_sales = volume
          /\ \E t \in { (10 * price) \div n, ((10 * price) \div n) + 1 } :
                /\ Nearest(t, 10 * price, n)
                /\ outputs.kpi_avg_price = "$" \o Tenths(t) \o "k"
          /\ \E t \in { (1000 * wins) \div n, ((1000 * wins) \div n) + 1 } :
                /\ Nearest(t, 1000 * wins, n)
                /\ outputs.kpi_success_rate = Tenths(t) \o "%"
          /\ (df = ScenarioDataset /\ AllSelected /\ selected_category = "All") =>
                /\ outputs.kpi_total_sales = "250"
                /\ outputs.kpi_avg_price = "$15.8k"
                /\ outputs.kpi_success_rate = "50.0%"
          /\ (df = ScenarioDataset /\ AllSelected /\ selected_category = "Low") =>
                /\ outputs.kpi_total_sales = "70"
                /\ outputs.kpi_success_rate = "0.0%"
          /\ (df = << RowPool[3], RowPool[5] >> /\ AllSelected /\ selected_category = "All") =>
                /\ outputs.kpi_total_sales = "1,280"
                /\ outputs.kpi_avg_price = "$17.0k"

C6_Witness ==
    /\ Idle
    /\ df = ScenarioDataset
    /\ AllSelected
    /\ selected_category = "All"
    /\ outputs.kpi_avg_price = "$15.8k"

(* C7: in Idle with a non-empty filtered subset, the trend table has one   *)
(* row per TimePeriod present, in period order, each holding the sum of    *)
(* SalesVolume of its rows; its volumes add up to the total-sales KPI, and *)
(* to the sum over the whole dataset when nothing is filtered out.         *)
C7_TrendPartition ==
    (Idle /\ Wanted # {}) =>
      LET fig == outputs.sales_trend_graph
          present == { df[i].TimePeriod : i \in Wanted }
      IN  /\ Len(fig.x) = Cardinality(present)
          /\ { fig.x[i] : i \in 1..Len(fig.x) } = present
          /\ \A i, j \in 1..Len(fig.x) :
                i < j => PositionIn(PeriodOrder, fig.x[i]) < PositionIn(PeriodOrder, fig.x[j])
          /\ Len(fig.y) = Len(fig.x)
          /\ \A i \in 1..Len(fig.x) :
                fig.y[i] = Total({ r \in Wanted : df[r].TimePeriod = fig.x[i] }, "SalesVolume")
          /\ SumSeq(fig.y) = Total(Wanted, "SalesVolume")
          /\ outputs.kpi_total_sales = Grouped(SumSeq(fig.y))
          /\ (AllSelected /\ selected_category = "All") =>
                SumSeq(fig.y) = Total(1..Len(df), "SalesVolume")

C7_Witness ==
    /\ Idle
    /\ df = ScenarioDataset
    /\ AllSelected
    /\ selected_category = "All"
    /\ outputs.sales_trend_graph.x = << "2020-Q1", "2020-Q2" >>
    /\ outputs.sales_trend_graph.y = << 150, 100 >>

(* C8: in Idle with a non-empty filtered subset of a dataset that keeps    *)
(* the data model (Is_Success is 0 or 1), the success rate computed and    *)
(* the text published lie between 0 and 100.                               *)
C8_SuccessRateBounded ==
    (Idle /\ Wanted # {}) =>
      /\ local.success_rate.den > 0
      /\ 0 <= local.success_rate.num
      /\ local.success_rate.num <= 100 * local.success_rate.den
      /\ \E t \in 0..1000 : outputs.kpi_success_rate = Tenths(t) \o "%"

C8_Witness ==
    /\ Idle
    /\ Cardinality(Wanted) = 3
    /\ outputs.kpi_success_rate = "66.7%"

(* C9: in Idle with a non-empty filtered subset, the region matrix has one *)
(* cell per (Region, Manufacturer) pair that occurs in the subset, holding *)
(* the sum of SalesVolume of its rows, and no cell for any other pair.     *)
C9_RegionMatrixSparse ==
    (Idle /\ Wanted # {}) =>
      LET fig == outputs.regional_heatmap
          pairs == { << df[i].Region, df[i].Manufacturer >> : i \in Wanted }
      IN  /\ Len(fig.x) = Cardinality(pairs)
          /\ Len(fig.y) = Len(fig.x)
          /\ Len(fig.z) = Len(fig.x)
          /\ { << fig.x[i], fig.y[i] >> : i \in 1..Len(fig.x) } = pairs
          /\ \A i \in 1..Len(fig.x) :
                fig.z[i] = Total({ r \in Wanted : df[r].Region = fig.x[i]
                                                  /\ df[r].Manufacturer = fig.y[i] },
                                 "SalesVolume")
          /\ (df = ScenarioDataset /\ selected_manufacturers = {"Toyota"}
              /\ selected_regions = {"North"} /\ selected_category = "All") =>
                (fig.x = << "North" >> /\ fig.y = << "Toyota" >> /\ fig.z = << 100 >>)

C9_Witness ==
    /\ Idle
    /\ df = ScenarioDataset
    /\ selected_manufacturers = {"Toyota"}
    /\ selected_regions = {"North"}
    /\ selected_category = "All"
    /\ outputs.regional_heatmap.z = << 100 >>

(* C10, as claimed: in Idle with a non-empty filtered subset, the counts   *)
(* of the success table add up to the number of rows of the subset, also   *)
(* when rows carry an Is_Success outside {0, 1}.                           *)
C10_CountsCoverEveryRow ==
    (Idle /\ Wanted # {}) =>
      SumSeq(outputs.success_classification_graph.values) = Len(local.filtered_df)

(* C10, amended: in Idle with a non-empty filtered subset, the success     *)
(* table has one row per label present, "Successful Sales" counting the    *)
(* rows with Is_Success = 1 and "Unsuccessful Sales" those with            *)
(* Is_Success = 0, each once; rows with any other Is_Success are in no     *)
(* row of the table, so the counts add up to the number of rows whose      *)
(* Is_Success is 0 or 1.                                                   *)
C10_CountsCoverLabelledRows ==
    (Idle /\ Wanted # {}) =>
      LET fig == outputs.success_classification_graph
          ones == { i \in Wanted : df[i].Is_Success = 1 }
          zeros == { i \in Wanted : df[i].Is_Success = 0 }
          CountFor(l) == IF \E i \in 1..Len(fig.names) : fig.names[i] = l
                         THEN fig.values[CHOOSE i \in 1..Len(fig.names) : fig.names[i] = l]
                         ELSE 0
      IN  /\ Len(fig.values) = Len(fig.names)
          /\ \A i, j \in 1..Len(fig.names) : fig.names[i] = fig.names[j] => i = j
          /\ \A i \in 1..Len(fig.names) :
                /\ fig.names[i] \in {"Successful Sales", "Unsuccessful Sales"}
                /\ fig.values[i] > 0
          /\ CountFor("Successful Sales") = Cardinality(ones)
          /\ CountFor("Unsuccessful Sales") = Cardinality(zeros)
          /\ SumSeq(fig.values) = Cardinality(ones) + Cardinality(zeros)

C10_Witness ==
    /\ Idle
    /\ \E i \in Wanted : df[i].Is_Success = 2
    /\ \E i \in Wanted : df[i].Is_Success = 1
    /\ Cardinality(Wanted) = 3
    /\ SumSeq(outputs.success_classification_graph.values) = 2

====
